---------------------------- MODULE Spec2Model ----------------------------
(***************************************************************************)
(* Slope stability by the method of slices (SlopeFs.py): SoilSpace holds   *)
(* the configuration, Model builds the slice geometry of one slip circle,  *)
(* SoilFs evaluates the Fellenius factor of safety and drives the search   *)
(* for the critical circle.                                                *)
(*                                                                         *)
(* Numbers.  The program computes in binary floating point; the model      *)
(* computes in fixed point:                                                *)
(*   lengths            in 1/Scale     (hundredths, the grid of round(x,2))*)
(*   angles, sin, cos   in 1/AngScale  (ten-thousandths)                   *)
(*   areas              in 1/AreaScale (so that the shoelace sum is exact) *)
(* Quotients are rounded away from zero (FDiv), so a quantity the program  *)
(* finds non-zero never becomes zero in the model and every comparison     *)
(* with zero takes the branch the program takes.                           *)
(***************************************************************************)
EXTENDS Integers, Sequences, FiniteSets

Scale     == 100
AngScale  == 100 * Scale
AreaScale == 2 * Scale * Scale

\* bounds of the model
MaxSlices == 2
MaxEvals  == 2
MaxCoord  == 1

---------------------------------------------------------------------------
(* Fixed-point arithmetic standing for the float operations of `math`.     *)

\* F applied to the value of v: v is evaluated once, however often F uses it
Bind(v, F(_)) == CHOOSE r \in {F(x) : x \in {v}} : TRUE

Abs(x) == IF x < 0 THEN -x ELSE x

Sign(x) == IF x < 0 THEN -1 ELSE IF x > 0 THEN 1 ELSE 0

\* n / d, rounded away from zero (d # 0)
FDiv[n \in Int, d \in Int] ==
    LET q == (Abs(n) + Abs(d) - 1) \div Abs(d)
    IN  Sign(n) * Sign(d) * q

\* a * b / AngScale for a factor b of any size: b is split so that no
\* intermediate product leaves the 32-bit range
FMul[a \in Int, b \in Int] ==
    LET hi == Abs(b) \div AngScale
        lo == Abs(b) % AngScale
    IN  Sign(b) * (a * hi + FDiv[a * lo, AngScale])

\* n / d to the nearest integer (d > 0)
RDiv[n \in Int, d \in Int] == Sign(n) * ((2 * Abs(n) + d) \div (2 * d))

RECURSIVE SqrtIter(_, _, _)
SqrtIter(n, lo, hi) ==
    IF hi - lo <= 1 THEN lo
    ELSE LET mid == (lo + hi) \div 2
         IN  IF mid * mid <= n THEN SqrtIter(n, mid, hi) ELSE SqrtIter(n, lo, mid)

\* math.sqrt on n >= 0 (the integer part of the root)
Sqrt[n \in Int] == SqrtIter(n, 0, 46340)

Pi     == 31416
HalfPi == Pi \div 2
TwoPi  == 2 * Pi

\* math.radians
Radians[deg \in Int] == RDiv[deg * Pi, 180]

RECURSIVE SinSeries(_, _, _, _)
SinSeries(x2, term, k, acc) ==
    IF k > 9 \/ term = 0 THEN acc
    ELSE LET next == -RDiv[RDiv[term * x2, AngScale], (k + 1) * (k + 2)]
         IN  SinSeries(x2, next, k + 2, acc + next)

\* sin on the first quadrant, x in 0..HalfPi, by its power series
SinQ[x \in Int] ==
    LET s == SinSeries(RDiv[x * x, AngScale], x, 1, x)
    IN  IF s > AngScale THEN AngScale ELSE s

\* math.sin
Sin[th \in Int] ==
    LET m == th % TwoPi
    IN  IF m <= HalfPi THEN SinQ[m]
        ELSE IF m <= Pi THEN SinQ[Pi - m]
        ELSE IF m <= Pi + HalfPi THEN -SinQ[m - Pi]
        ELSE -SinQ[TwoPi - m]

\* math.cos
Cos[th \in Int] == Sin[th + HalfPi]

\* math.tan (th in the open first quadrant)
Tan[th \in Int] == RDiv[Sin[th] * AngScale, Cos[th]]

RECURSIVE AcosIter(_, _, _)
AcosIter(v, lo, hi) ==
    IF hi - lo <= 1 THEN lo
    ELSE LET mid == (lo + hi) \div 2
         IN  IF Cos[mid] >= v THEN AcosIter(v, mid, hi) ELSE AcosIter(v, lo, mid)

\* math.acos, v in -AngScale..AngScale
Acos[v \in Int] == IF v >= AngScale THEN 0 ELSE IF v <= -AngScale THEN Pi ELSE AcosIter(v, 0, Pi)

RECURSIVE AtanIter(_, _, _, _)
AtanIter(dy, dx, lo, hi) ==
    IF hi - lo <= 1 THEN lo
    ELSE LET mid == (lo + hi) \div 2
         IN  IF Sin[mid] * dx <= Cos[mid] * dy
             THEN AtanIter(dy, dx, mid, hi) ELSE AtanIter(dy, dx, lo, mid)

\* math.atan(dy / dx) for dy >= 0, dx > 0
AtanPos[dy \in Int, dx \in Int] == IF dy = 0 THEN 0 ELSE AtanIter(dy, dx, 0, HalfPi)

\* n / d in 1/AngScale for |n| <= |d|, d > 0: both are cut to five digits first
Ratio[n \in Int, d \in Int] ==
    LET k == d \div 50000 + 1
    IN  RDiv[Sign(n) * (Abs(n) \div k) * AngScale, d \div k]

\* round(v, 2) of a value held in 1/(Scale * AngScale)
Round2[v \in Int] == (v + AngScale \div 2) \div AngScale

\* the float value that is not a number (0/0 and what is computed from it)
NaN == -(2 ^ 30)


---------------------------------------------------------------------------
(* SoilSpace                                                               *)

CircleKeys == {"xc", "yc", "R"}

\* circle=None, and the key Circle while it is not set
NoCircle == [k \in {} |-> 0]

MkCircle(xc, yc, r) == [xc |-> xc, yc |-> yc, R |-> r]

\* SoilSpace.update_slope_len
update_slope_len(p) == [p EXCEPT !.slope_len = FDiv[p.h * AngScale, Tan[p.alp]]]

\* the assert of update_circle
KeysOk(circle) == CircleKeys \subseteq DOMAIN circle

\* the circle update_circle stores: the default one when none is given
NewCircle(p, circle) ==
    IF DOMAIN circle = {}
    THEN LET xc == RDiv[FDiv[p.h * AngScale, Tan[p.alp]], 2]
             yc == RDiv[1333 * p.h, 1000]
         IN  MkCircle(xc, yc, Sqrt[xc * xc + yc * yc])
    ELSE MkCircle(circle.xc, circle.yc, circle.R)

\* update_circle taking every circle for a missing one
update_circle_default(p, circle) == [p EXCEPT !.Circle = NewCircle(p, NoCircle)]

\* SoilSpace.update_circle (the caller has checked KeysOk)
update_circle(p, circle) == [p EXCEPT !.Circle = NewCircle(p, circle)]

\* SoilSpace.__init__: the properties, or the error that ends the construction
SoilSpaceInit(c, phi, gam, alp, h, num_slice, circle) ==
    LET p0 == [c |-> c, phi |-> Radians[phi], gam |-> gam, alp |-> Radians[alp],
               h |-> h, num_slice |-> num_slice, slope_len |-> 0, Circle |-> NoCircle]
        p1 == update_slope_len(p0)
    IN  IF DOMAIN circle # {} /\ ~KeysOk(circle)
        THEN [err |-> "InvalidKeys", properties |-> p1]
        ELSE [err |-> "none", properties |-> update_circle(p1, circle)]

---------------------------------------------------------------------------
(* Model.intersec                                                          *)

\* a, b, c and delta of the circle-vs-slope-line quadratic, t = tan(alp)
QuadraticT(p, t) ==
    LET xc == p.Circle.xc
        yc == p.Circle.yc
        r  == p.Circle.R
        a  == AngScale + FMul[t, t]
        b1 == -2 * xc
        b  == b1 - 2 * FMul[t, yc]
        c  == xc * xc + yc * yc - r * r
    IN  [a |-> a, b |-> b, c |-> c, delta |-> b * b - 4 * FMul[a, c]]

Quadratic(p) == Bind(Tan[p.alp], LAMBDA t : QuadraticT(p, t))

Delta(p) == Quadratic(p).delta

\* the assert of intersec with a tangent circle let through
DeltaOkNonStrict(delta) == delta >= 0

\* the assert of intersec
DeltaOk(delta) == delta > 0

\* x1 (sgn = 1) and x2 (sgn = -1)
RootQ(q, sgn) == FDiv[(-q.b + sgn * Sqrt[q.delta]) * AngScale, 2 * q.a]

Root(p, sgn) == Bind(Quadratic(p), LAMBDA q : RootQ(q, sgn))

\* the branch of f that x takes
OnSlope(x, l) == 0 < x /\ x < l

\* f of intersec: the point of the ground profile for the root x, or the
\* ValueError of math.sqrt
IntersecFT(p, x, t) ==
    LET h    == p.h
        xc   == p.Circle.xc
        yc   == p.Circle.yc
        r    == p.Circle.R
        low  == r * r - yc * yc
        high == r * r + 2 * h * yc - h * h - yc * yc
    IN  IF OnSlope(x, p.slope_len) THEN [ok |-> TRUE, pt |-> <<x, FMul[t, x]>>]
        ELSE IF x < 0
             THEN IF low < 0 THEN [ok |-> FALSE, pt |-> <<0, 0>>]
                  ELSE [ok |-> TRUE, pt |-> <<xc - Sqrt[low], 0>>]
             ELSE IF high < 0 THEN [ok |-> FALSE, pt |-> <<0, 0>>]
                  ELSE [ok |-> TRUE, pt |-> <<xc + Sqrt[high], h>>]

IntersecF(p, x) ==
    Bind(x, LAMBDA xv : Bind(Tan[p.alp], LAMBDA t : IntersecFT(p, xv, t)))

Min(a, b) == IF a <= b THEN a ELSE b

\* p_l, p_r of intersec: the two points from left to right
LeftRight(p1, p2) ==
    LET p_l == IF p1[1] = Min(p1[1], p2[1]) THEN p1 ELSE p2
        p_r == IF p_l[1] = p1[1] THEN p2 ELSE p1
    IN  <<p_l, p_r>>

\* the points f gives for x1 and x2, or the ValueError one of them raises
RootPoints(f1, f2) ==
    IF ~f1.ok \/ ~f2.ok THEN [err |-> "ValueError", points |-> <<>>]
    ELSE [err |-> "none", points |-> LeftRight(f1.pt, f2.pt)]

\* Model.intersec: <<p_l, p_r>>, or the error raised
intersec(p) ==
    IF ~DeltaOk(Delta(p)) THEN [err |-> "NoIntersection", points |-> <<>>]
    ELSE Bind(IntersecF(p, Root(p, 1)), LAMBDA f1 :
              Bind(IntersecF(p, Root(p, -1)), LAMBDA f2 : RootPoints(f1, f2)))

---------------------------------------------------------------------------
(* Model.split_geometry                                                    *)

\* dist of total_angle
Dist(p1, p2) ==
    Sqrt[(p1[1] - p2[1]) * (p1[1] - p2[1]) + (p1[2] - p2[2]) * (p1[2] - p2[2])]

\* total_angle: the angle the two points subtend at the centre; 2*b*c # 0
total_angle(p1, p2, xc, yc) ==
    LET ct == <<xc, yc>>
        a  == Dist(p1, p2)
        b  == Dist(p1, ct)
        c  == Dist(p2, ct)
    IN  Acos[Ratio[-(a * a - (b * b + c * c)), 2 * b * c]]

\* gam: atan(abs(dy / dx)) with the float64 quotient (x/0 = inf, 0/0 = nan)
Bearing(dy, dx) ==
    IF dx = 0 THEN (IF dy = 0 THEN NaN ELSE HalfPi)
    ELSE AtanPos[Abs(dy), Abs(dx)]

\* f of split_geometry: the n-th arc point, rounded to two decimals
ArcPoint(r, xc, yc, gam, alp, n) ==
    IF gam = NaN THEN <<NaN, NaN>>
    ELSE LET th == -(gam + n * alp)
         IN  <<Round2[r * Cos[th] + xc * AngScale],
               Round2[r * Sin[th] + yc * AngScale]>>

\* Model.split_geometry: the num_slice + 1 arc points, or the error raised
split_geometry(p, pts) ==
    LET p_l == pts[1]
        p_r == pts[2]
        r   == p.Circle.R
        xc  == p.Circle.xc
        yc  == p.Circle.yc
        ns  == p.num_slice
        ct  == <<xc, yc>>
    IN  IF Dist(p_l, ct) * Dist(p_r, ct) = 0
        THEN [err |-> "ZeroDivisionError", c_points |-> <<>>]
        ELSE LET tot_a == total_angle(p_l, p_r, xc, yc)
                 alp   == RDiv[tot_a, ns]
                 gam   == Bearing(yc - p_r[2], xc - p_r[1])
             IN  [err |-> "none",
                  c_points |-> [n \in 1..(ns + 1) |->
                                   ArcPoint(r, xc, yc, gam, alp, n - 1)]]

---------------------------------------------------------------------------
(* Model.mk_polys, calc_alphas, calc_areas                                 *)

\* f of mk_polys: the height of the surface point paired with the arc point x
SurfaceY(p, x) ==
    LET a == p.alp
        h == p.h
        l == p.slope_len
    IN  IF x # NaN /\ 0 <= x /\ x <= l THEN Round2[a * x]
        ELSE IF x # NaN /\ x > l THEN h
        ELSE 0

\* Model.mk_polys with pair_points: [arc_i, surface_i, surface_i+1, arc_i+1]
mk_polys(p, c_parts) ==
    LET up == [i \in 1..Len(c_parts) |-> <<c_parts[i][1], SurfaceY(p, c_parts[i][1])>>]
    IN  [i \in 1..(Len(c_parts) - 1) |->
             <<c_parts[i], up[i], up[i + 1], c_parts[i + 1]>>]

\* float64 subtraction
FSub(a, b) == IF a = NaN \/ b = NaN THEN NaN ELSE a - b

\* alp of calc_alphas: atan(dy / dx) with the float64 quotient
SliceAngle(dy, dx) ==
    IF dy = NaN \/ dx = NaN THEN NaN
    ELSE IF dx = 0 THEN (IF dy = 0 THEN NaN ELSE Sign(dy) * HalfPi)
    ELSE Sign(dy) * Sign(dx) * AtanPos[Abs(dy), Abs(dx)]

\* dx of calc_alphas
SliceDx(poly) == FSub(poly[1][1], poly[4][1])

\* dy of calc_alphas
SliceDy(poly) == FSub(poly[1][2], poly[4][2])

\* Model.calc_alphas: <<dxs, alphas>>
calc_alphas(ps) ==
    <<[i \in 1..Len(ps) |-> SliceDx(ps[i])],
      [i \in 1..Len(ps) |-> SliceAngle(SliceDy(ps[i]), SliceDx(ps[i]))]>>

\* the shoelace term without the edge that closes the polygon
EdgeTermOpen(poly, i) ==
    IF i = Len(poly) THEN 0
    ELSE poly[i][1] * poly[i + 1][2] - poly[i + 1][1] * poly[i][2]

\* one term of the shoelace sum, (x1*y2 - x2*y1)/2 in 1/AreaScale
EdgeTerm(poly, i) ==
    LET n  == Len(poly)
        j  == (i % n) + 1
        x1 == poly[i][1]
        y1 == poly[i][2]
        x2 == poly[j][1]
        y2 == poly[j][2]
    IN  x1 * y2 - x2 * y1

RECURSIVE ShoelaceSum(_, _)
ShoelaceSum(poly, i) ==
    IF i = 0 THEN 0 ELSE ShoelaceSum(poly, i - 1) + EdgeTerm(poly, i)

HasNaN(poly) == \E i \in 1..Len(poly) : poly[i][1] = NaN \/ poly[i][2] = NaN

\* the area of one polygon
Shoelace(poly) == IF HasNaN(poly) THEN NaN ELSE ShoelaceSum(poly, Len(poly))

\* Model.calc_areas
calc_areas(ps) == [i \in 1..Len(ps) |-> Shoelace(ps[i])]

---------------------------------------------------------------------------
(* SoilFs.fellenius                                                        *)

\* a force held in 1/(AreaScale) brought to 1/Scale
ToForce(w) == FDiv[w, 2 * Scale]

RECURSIVE SumSeq(_, _)
SumSeq(s, i) == IF i = 0 THEN 0 ELSE SumSeq(s, i - 1) + s[i]

AnyNaN(s) == \E i \in 1..Len(s) : s[i] = NaN

\* fell1, the resisting sum (u = 0)
Resisting(p, are, alp) ==
    IF AnyNaN(are) \/ AnyNaN(alp) THEN NaN
    ELSE SumSeq([i \in 1..Len(are) |->
                    RDiv[p.c * p.slope_len, p.num_slice]
                    + FMul[Tan[p.phi], ToForce(FMul[Cos[alp[i]], p.gam * are[i]])]],
                Len(are))

\* fell2, the driving sum
Driving(p, are, alp) ==
    IF AnyNaN(are) \/ AnyNaN(alp) THEN NaN
    ELSE SumSeq([i \in 1..Len(are) |-> ToForce(FMul[Sin[alp[i]], p.gam * are[i]])],
                Len(are))

\* fell1 / fell2 as float64 values divide: x/0 is inf, 0/0 and nan/x are nan
FloatQuotient(fell1, fell2) ==
    IF fell1 = NaN \/ fell2 = NaN THEN [kind |-> "nan", val |-> 0]
    ELSE IF fell2 = 0
         THEN (IF fell1 = 0 THEN [kind |-> "nan", val |-> 0]
               ELSE [kind |-> "inf", val |-> Sign(fell1)])
    ELSE [kind |-> "finite", val |-> FDiv[fell1 * Scale, fell2]]

\* SoilFs.fellenius
fellenius(p, are, alp) == FloatQuotient(Resisting(p, are, alp), Driving(p, are, alp))

NoValue == [kind |-> "none", val |-> 0]

---------------------------------------------------------------------------
(* The program state: the SoilSpace, the Model being built and the search  *)
(* of SoilFs.end_results.  The minimiser (scipy.optimize.minimize) is an   *)
(* external service: it may propose any candidate of Candidates, keeps an   *)
(* iterate among the candidates it has evaluated and reports it with a     *)
(* success flag.                                                           *)

VARIABLES
    properties,   \* SoilSpace.properties
    pc,           \* the statement the program is at
    err,          \* the exception that ended the program, or "none"
    call,         \* who builds the current Model: "end_results" / "fellenius_call"
    points,       \* Model.points
    c_points,     \* Model.c_points
    polys,        \* Model.polys
    dxs,          \* Model.dxs
    alphas,       \* Model.alphas
    polys_A,      \* Model.polys_A
    fs,           \* the value the last call of fellenius returned
    x0,           \* c0 of end_results, the initial guess handed to minimize
    c0,           \* c0 of the fellenius_call started last
    evals,        \* the number of fellenius_call started
    iterate,      \* the minimiser's current iterate and its objective value
    results       \* SoilFs.results

vars == <<properties, pc, err, call, points, c_points, polys, dxs, alphas,
          polys_A, fs, x0, c0, evals, iterate, results>>

modelVars == <<points, c_points, polys, dxs, alphas, polys_A>>

\* the configurations SoilSpace is constructed with
AlpDegs == {30, 45}

Heights == {9 * Scale}

InitCircles ==
    {NoCircle, MkCircle(2 * Scale, 12 * Scale, 13 * Scale),
     [xc |-> 2 * Scale, yc |-> 12 * Scale]}

\* the circles <<xc, yc, R>> the minimiser may propose
Candidates ==
    {<<2 * Scale, 12 * Scale, 13 * Scale>>,     \* toe circle through both flats
     <<3 * Scale, 4 * Scale, 5 * Scale>>,       \* through the toe (0, 0)
     <<7 * Scale, 3 * Scale, 3 * Scale>>,       \* centre right of the slope crossing
     <<-5 * Scale, 5 * Scale, 1 * Scale>>,      \* misses the slope line
     <<3 * Scale, 3 * Scale, 0>>,               \* a point on the 45-degree line
     <<2 * Scale, 12 * Scale, -13 * Scale>>,    \* negative radius
     <<-5 * Scale, -6 * Scale, 1 * Scale>>}     \* crosses the line below y = 0

NoIterate == [x |-> <<>>, fun |-> NoValue]

NoResults == [x |-> <<>>, fun |-> NoValue, success |-> FALSE, set |-> FALSE]

\* a new Model object: nothing computed yet
ModelUnset ==
    /\ points = <<>>
    /\ c_points = <<>>
    /\ polys = <<>>
    /\ dxs = <<>>
    /\ alphas = <<>>
    /\ polys_A = <<>>

SearchUnset ==
    /\ call = "none"
    /\ fs = NoValue
    /\ x0 = <<>>
    /\ c0 = <<>>
    /\ evals = 0
    /\ iterate = NoIterate
    /\ results = NoResults

\* Model(self.soil) makes a new object
NewModel ==
    /\ points' = <<>>
    /\ c_points' = <<>>
    /\ polys' = <<>>
    /\ dxs' = <<>>
    /\ alphas' = <<>>
    /\ polys_A' = <<>>

\* after SoilSpace(c=20, phi=30, gam=18, alp, h, num_slice, circle)
Init ==
    \E alp \in AlpDegs, h \in Heights, ns \in 1..MaxSlices, circle \in InitCircles :
        LET s == SoilSpaceInit(20, 30, 18, alp, h, ns, circle)
        IN  /\ properties = s.properties
            /\ err = s.err
            /\ pc = IF s.err = "none" THEN "start" ELSE "raised"
            /\ ModelUnset
            /\ SearchUnset

\* an exception nobody catches ends the program
Raise(e) ==
    /\ pc' = "raised"
    /\ err' = e

\* SoilFs.__init__ -> end_results: c0 is read and model_0 = Model(self.soil) starts
EndResults ==
    /\ pc = "start"
    /\ x0' = <<properties.Circle.xc, properties.Circle.yc, properties.Circle.R>>
    /\ call' = "end_results"
    /\ pc' = "intersec"
    /\ UNCHANGED <<properties, err, modelVars, fs, c0, evals, iterate, results>>

\* self.points = self.intersec()
Intersec ==
    /\ pc = "intersec"
    /\ LET r == intersec(properties)
       IN  IF r.err = "none"
           THEN /\ points' = r.points
                /\ pc' = "split"
                /\ err' = err
           ELSE /\ Raise(r.err)
                /\ points' = points
    /\ UNCHANGED <<properties, call, c_points, polys, dxs, alphas, polys_A, fs,
                   x0, c0, evals, iterate, results>>

\* self.c_points = self.split_geometry()
SplitGeometry ==
    /\ pc = "split"
    /\ LET r == split_geometry(properties, points)
       IN  IF r.err = "none"
           THEN /\ c_points' = r.c_points
                /\ pc' = "polys"
                /\ err' = err
           ELSE /\ Raise(r.err)
                /\ c_points' = c_points
    /\ UNCHANGED <<properties, call, points, polys, dxs, alphas, polys_A, fs,
                   x0, c0, evals, iterate, results>>

\* self.polys = self.mk_polys()
MkPolys ==
    /\ pc = "polys"
    /\ polys' = mk_polys(properties, c_points)
    /\ pc' = "alphas"
    /\ UNCHANGED <<properties, err, call, points, c_points, dxs, alphas, polys_A,
                   fs, x0, c0, evals, iterate, results>>

\* self.dxs, self.alphas = self.calc_alphas()
CalcAlphas ==
    /\ pc = "alphas"
    /\ dxs' = calc_alphas(polys)[1]
    /\ alphas' = calc_alphas(polys)[2]
    /\ pc' = "areas"
    /\ UNCHANGED <<properties, err, call, points, c_points, polys, polys_A, fs,
                   x0, c0, evals, iterate, results>>

\* self.polys_A = self.calc_areas()
CalcAreas ==
    /\ pc = "areas"
    /\ polys_A' = calc_areas(polys)
    /\ pc' = "fellenius"
    /\ UNCHANGED <<properties, err, call, points, c_points, polys, dxs, alphas, fs,
                   x0, c0, evals, iterate, results>>

\* self.fellenius(model): the value goes to end_results or back to the minimiser
Fellenius ==
    /\ pc = "fellenius"
    /\ fs' = fellenius(properties, polys_A, alphas)
    /\ pc' = "minimize"
    /\ UNCHANGED <<properties, err, call, modelVars, x0, c0, evals, iterate, results>>

\* the minimiser calls fellenius_call(c0): update_circle, then Model(self.soil)
FelleniusCall(cand) ==
    /\ pc = "minimize"
    /\ evals < MaxEvals
    /\ c0' = cand
    /\ properties' = update_circle(properties, MkCircle(cand[1], cand[2], cand[3]))
    /\ NewModel
    /\ fs' = NoValue
    /\ call' = "fellenius_call"
    /\ evals' = evals + 1
    /\ pc' = "intersec"
    /\ UNCHANGED <<err, x0, iterate, results>>

\* the minimiser takes the candidate just evaluated as its iterate
MinimizeAccept ==
    /\ pc = "minimize"
    /\ call = "fellenius_call"
    /\ iterate # [x |-> c0, fun |-> fs]
    /\ iterate' = [x |-> c0, fun |-> fs]
    /\ UNCHANGED <<properties, pc, err, call, modelVars, fs, x0, c0, evals, results>>

\* minimize returns: self.results, and self.fs = {'Fellenius': results.fun}
MinimizeReturn(success) ==
    /\ pc = "minimize"
    /\ iterate # NoIterate
    /\ results' = [x |-> iterate.x, fun |-> iterate.fun, success |-> success, set |-> TRUE]
    /\ pc' = "done"
    /\ UNCHANGED <<properties, err, call, modelVars, fs, x0, c0, evals, iterate>>

Next ==
    \/ EndResults
    \/ Intersec
    \/ SplitGeometry
    \/ MkPolys
    \/ CalcAlphas
    \/ CalcAreas
    \/ Fellenius
    \/ \E cand \in Candidates \cup {x0} : FelleniusCall(cand)
    \/ MinimizeAccept
    \/ \E success \in BOOLEAN : MinimizeReturn(success)

Spec == Init /\ [][Next]_vars

---------------------------------------------------------------------------
(* calc_alphas and calc_areas as functions of any list of quadrilaterals:  *)
(* the polygons are drawn from a grid instead of being built from a circle *)

GridCoords == {k * Scale : k \in 0..MaxCoord}

GridPolys == [1..4 -> GridCoords \X GridCoords]

InitAreas ==
    /\ properties = SoilSpaceInit(20, 30, 18, 45, 9 * Scale, 1, NoCircle).properties
    /\ err = "none"
    /\ pc = "alphas"
    /\ points = <<>>
    /\ c_points = <<>>
    /\ polys \in {<<q>> : q \in GridPolys}
    /\ dxs = <<>>
    /\ alphas = <<>>
    /\ polys_A = <<>>
    /\ SearchUnset

NextAreas ==
    \/ CalcAlphas
    \/ CalcAreas

SpecAreas == InitAreas /\ [][NextAreas]_vars
---------------------------------------------------------------------------
(* Properties                                                              *)

HasCircle(p) == DOMAIN p.Circle # {}

CircleOf(v) == MkCircle(v[1], v[2], v[3])

\* the ground profile of the specification: 0, tan(alp)*x, h
GroundProfile(p, x) ==
    IF x < 0 THEN 0
    ELSE IF x <= p.slope_len THEN FMul[Tan[p.alp], x]
    ELSE p.h

Near(a, b, tol) == Abs(a - b) <= tol

\* C1: every surface vertex of every slice is the ground-profile point above
\* its arc point: (x, 0) left of the toe, (x, tan(alp)*x) on the slope,
\* (x, h) right of the crest, up to the two-decimal rounding.
C1_SurfaceOnGroundProfile ==
    \A i \in 1..Len(polys) :
        \A k \in {<<1, 2>>, <<4, 3>>} :
            LET arc  == polys[i][k[1]]
                surf == polys[i][k[2]]
            IN  arc[1] # NaN =>
                    /\ surf[1] = arc[1]
                    /\ Near(surf[2], GroundProfile(properties, arc[1]), 1)

\* C2: each root x of the quadratic gives the point (x, tan(alp)*x) when
\* 0 <= x <= slope_len (the ends included), a point with y = 0 when x < 0 and
\* a point with y = h when x > slope_len.
C2_RootsOnClosedRange ==
    points # <<>> =>
        \A sgn \in {1, -1} :
            LET x == Root(properties, sgn)
                l == properties.slope_len
            IN  \E pt \in {points[1], points[2]} :
                    /\ (0 <= x /\ x <= l) => pt = <<x, FMul[Tan[properties.alp], x]>>
                    /\ x < 0 => pt[2] = 0
                    /\ x > l => pt[2] = properties.h

\* C3: with delta <= 0 the construction of the Model ends at intersec with the
\* no-intersection error: no arc point, polygon or FS value exists and nothing
\* is returned to the caller in its place.
C3_NoIntersectionRaised ==
    (HasCircle(properties) /\ Delta(properties) <= 0) =>
        /\ pc \in {"start", "intersec", "raised"}
        /\ pc = "raised" =>
              /\ err = "NoIntersection"
              /\ ModelUnset
              /\ fs = NoValue
              /\ results = NoResults

C3_Witness ==
    /\ pc = "raised"
    /\ err = "NoIntersection"
    /\ call = "fellenius_call"
    /\ Delta(properties) <= 0

\* C4: a candidate whose evaluation raises the no-intersection or a
\* degenerate-geometry error never ends the search with that error.
C4_SearchSurvivesInfeasible ==
    ~(/\ call = "fellenius_call"
      /\ pc = "raised"
      /\ err \in {"NoIntersection", "ValueError", "ZeroDivisionError"})

\* C5: after any number of objective evaluations the configuration holds the
\* circle it was constructed with.
C5_EvaluationKeepsCircle ==
    evals >= 1 => properties.Circle = CircleOf(x0)

\* C6: fellenius returns no value, finite or not, when the driving sum is 0.
C6_ZeroDrivingRaises ==
    ~(/\ fs # NoValue
      /\ Driving(properties, polys_A, alphas) = 0)

\* C7: every circle stored in properties['Circle'] has R > 0.
C7_StoredRadiusPositive ==
    HasCircle(properties) => properties.Circle.R > 0

\* C8: for a circle with R > 0 that crosses the slope, the slice widths add up
\* to p_r.x - p_l.x, the first arc point is the right intersection point and
\* the last one the left, within the rounding tolerance.
C8_WidthsSpanIntersections ==
    (dxs # <<>> /\ properties.Circle.R > 0 /\ c_points[1][1] # NaN) =>
        /\ Near(SumSeq(dxs, Len(dxs)), points[2][1] - points[1][1], 5)
        /\ Near(c_points[1][1], points[2][1], 5)
        /\ Near(c_points[1][2], points[2][2], 5)
        /\ Near(c_points[Len(c_points)][1], points[1][1], 5)
        /\ Near(c_points[Len(c_points)][2], points[1][2], 5)

UnitSquare == <<<<0, 0>>, <<0, Scale>>, <<Scale, Scale>>, <<Scale, 0>>>>

Reversed(poly) == [i \in 1..Len(poly) |-> poly[Len(poly) + 1 - i]]

\* the shoelace sum of four vertices written out: twice the area, in 1/Scale^2
Shoelace4(q) ==
      (q[1][1] * q[2][2] - q[2][1] * q[1][2])
    + (q[2][1] * q[3][2] - q[3][1] * q[2][2])
    + (q[3][1] * q[4][2] - q[4][1] * q[3][2])
    + (q[4][1] * q[1][2] - q[1][1] * q[4][2])

\* C9 as stated: calc_areas returns the cyclic shoelace value, which is 1.0
\* for the unit square [(0,0),(0,1),(1,1),(1,0)], and reversing the vertex
\* order negates it.
C9_ShoelaceUnitSquareIsOne ==
    \A i \in 1..Len(polys_A) :
        /\ polys_A[i] = Shoelace4(polys[i])
        /\ polys[i] = UnitSquare => polys_A[i] = AreaScale
        /\ Shoelace(Reversed(polys[i])) = -polys_A[i]

\* C9 amended: calc_areas returns the signed cyclic shoelace value, which is
\* -1.0 for the unit square [(0,0),(0,1),(1,1),(1,0)] (its vertices run
\* clockwise), and reversing the vertex order negates it.
C9_ShoelaceSigned ==
    \A i \in 1..Len(polys_A) :
        /\ polys_A[i] = Shoelace4(polys[i])
        /\ polys[i] = UnitSquare => polys_A[i] = -AreaScale
        /\ Shoelace(Reversed(polys[i])) = -polys_A[i]

C9_Witness ==
    /\ polys_A # <<>>
    /\ polys[1] = UnitSquare
    /\ polys_A[1] = -AreaScale

OtherKeys == {"c", "phi", "gam", "alp", "h", "num_slice", "slope_len"}

\* C10: once an objective evaluation has started, properties['Circle'] is the
\* candidate of the evaluation started last, also after that evaluation has
\* failed, and no step changes any other property.
C10_CircleIsLastCandidate ==
    [][/\ evals' >= 1 => properties'.Circle = CircleOf(c0')
       /\ \A k \in OtherKeys : properties'[k] = properties[k]]_vars

C10_Witness ==
    /\ pc = "raised"
    /\ call = "fellenius_call"
    /\ c0 # x0
    /\ properties.Circle = CircleOf(c0)
=============================================================================
